---- MODULE Spec2Model ----
(***************************************************************************)
(* Price-acquisition and reconciliation pipeline of clayps:                *)
(*   services/gemini.ts   fetchRawgMetadata, fetchGeminiPrices,            *)
(*                        searchGamePrices                                 *)
(*   types.ts             REGIONS, PriceInfo, GameData                     *)
(*   services/history.ts  savePriceHistory, getPriceHistory                *)
(*   services/currency.ts fetchExchangeRates, convertPrice                 *)
(*   App.tsx              handleSearch                                     *)
(* A JavaScript object is a function whose DOMAIN is the set of its own    *)
(* keys; a key that is missing is not in the DOMAIN.  A string property    *)
(* that holds null/undefined holds the value Null.                         *)
(***************************************************************************)
EXTENDS Integers, Sequences, FiniteSets, TLC

VARIABLES
    apiKey,               \* process.env.API_KEY is set
    rawgKey,              \* process.env.RAWG_API_KEY is set
    pc,                   \* searchGamePrices: "idle", "pending", "returned", "raised"
    selectedRegionCodes,  \* argument of searchGamePrices
    rPc,                  \* fetchRawgMetadata: "idle", "request", "done"
    rawgData,             \* value fetchRawgMetadata resolved with
    rawgRequests,         \* requests sent to the metadata provider
    gPc,                  \* fetchGeminiPrices: "idle", "request", "waiting", "returned", "raised"
    i,                    \* loop index of the retry loop
    lastError,            \* lastError of the retry loop
    geminiData,           \* value fetchGeminiPrices resolved with
    log,                  \* provider requests, failures and backoff waits, in order
    finalData,            \* value searchGamePrices returned
    thrown,               \* error searchGamePrices raised
    storage,              \* localStorage item 'ps_price_history_v1'
    hCalls,               \* savePriceHistory calls so far
    hOp,                  \* last history call: "none", "record", "query"
    hArgs,                \* its arguments, the day its clock showed, the storage fault it met
    hPrev,                \* the stored item before it
    hOut,                 \* whether it raised, what it returned, its setItem calls
    exchangeRates,        \* App state exchangeRates: null until loadRates has set it
    ratesPc,              \* fetchExchangeRates: "idle", "request", "done"
    ratesOut,             \* what the rate provider answered, and whether the call raised
    cv,                   \* the last conversion: its arguments, its result, the way back
    loading,              \* App state loading
    error,                \* App state error: Null or the message shown
    gameData,             \* App state gameData: whether it is set, and the GameData
    hsPc                  \* handleSearch: "idle", "awaiting", "ended"

searchVars == <<apiKey, rawgKey, pc, selectedRegionCodes, rPc, rawgData, rawgRequests,
                gPc, i, lastError, geminiData, log, finalData, thrown>>

historyVars == <<storage, hCalls, hOp, hArgs, hPrev, hOut>>

rateVars == <<exchangeRates, ratesPc, ratesOut, cv>>

appVars == <<loading, error, gameData, hsPc>>

vars == <<searchVars, historyVars, rateVars, appVars>>

----------------------------------------------------------------------------
(* Bounds *)

MaxPrices == 2      \* longest prices array a provider payload carries

MaxCalls == 2       \* savePriceHistory calls in one run

Precision == 10     \* bits of the significand of a number

----------------------------------------------------------------------------
(* Constants of the program *)

maxRetries == 3

BaseDelay == 2000

REGIONS == << [code |-> "US", defaultCurrency |-> "USD"],
              [code |-> "SG", defaultCurrency |-> "SGD"],
              [code |-> "TR", defaultCurrency |-> "TRY"],
              [code |-> "ID", defaultCurrency |-> "IDR"] >>

\* the enum of regionCode in the responseSchema
SchemaRegionCodes == {"US", "SG", "TR", "ID"}

\* the required lists of the responseSchema
RequiredTop == {"title", "description", "prices"}

RequiredPrice == {"region", "regionCode", "currency", "amount"}

Null == "null"

EmptyObj == << >>

NoError == [kind |-> "none", status |-> 0, msg429 |-> FALSE, msg503 |-> FALSE,
            str429 |-> FALSE, at |-> 0]

----------------------------------------------------------------------------
(* Inputs *)

\* region selections handed to searchGamePrices
RegionChoices == { {}, {"US"}, {"US", "TR"}, {"US", "SG", "TR", "ID"} }

\* errors ai.models.generateContent rejects with: kind is what the provider
\* signalled, the other fields are what the catch block looks at
ProviderErrors ==
    { [kind |-> "429", status |-> 429, msg429 |-> TRUE,  msg503 |-> FALSE, str429 |-> TRUE,  at |-> 0],
      [kind |-> "429", status |-> 429, msg429 |-> FALSE, msg503 |-> FALSE, str429 |-> FALSE, at |-> 0],
      [kind |-> "429", status |-> 0,   msg429 |-> TRUE,  msg503 |-> FALSE, str429 |-> TRUE,  at |-> 0],
      [kind |-> "429", status |-> 0,   msg429 |-> FALSE, msg503 |-> FALSE, str429 |-> TRUE,  at |-> 0],
      [kind |-> "503", status |-> 503, msg429 |-> FALSE, msg503 |-> FALSE, str429 |-> FALSE, at |-> 0],
      [kind |-> "503", status |-> 0,   msg429 |-> FALSE, msg503 |-> TRUE,  str429 |-> FALSE, at |-> 0],
      [kind |-> "other", status |-> 400, msg429 |-> FALSE, msg503 |-> FALSE, str429 |-> FALSE, at |-> 0] }

\* new Error("No response from AI")
NoResponseError == [kind |-> "empty", status |-> 0, msg429 |-> FALSE, msg503 |-> FALSE,
                    str429 |-> FALSE, at |-> 0]

\* the SyntaxError of JSON.parse: its message is the engine's and quotes the
\* offending text or its position, so it may or may not contain 429 or 503
SyntaxErrors ==
    { [kind |-> "parse", status |-> 0, msg429 |-> a, msg503 |-> b, str429 |-> a, at |-> 0]
        : a \in BOOLEAN, b \in BOOLEAN }

\* new Error("Google API Key is missing. ...")
ConfigError == [kind |-> "config", status |-> 0, msg429 |-> FALSE, msg503 |-> FALSE,
                str429 |-> FALSE, at |-> 0]

\* new Error("Please select at least one region.")
ValidationError == [kind |-> "validation", status |-> 0, msg429 |-> FALSE, msg503 |-> FALSE,
                    str429 |-> FALSE, at |-> 0]

\* TypeError of finalData.prices.filter when prices is undefined
TypeError == [kind |-> "type", status |-> 0, msg429 |-> FALSE, msg503 |-> FALSE,
              str429 |-> FALSE, at |-> 0]

\* price entries a provider payload may carry
PriceInfos ==
    { [region |-> "United States", regionCode |-> "US", currency |-> "USD", amount |-> 10],
      [region |-> "United States", regionCode |-> "US", currency |-> "USD", amount |-> 0],
      [region |-> "Turkey", regionCode |-> "TR", currency |-> "TRY", amount |-> 10, originalAmount |-> 5],
      [region |-> "Turkey", regionCode |-> "TR", currency |-> "TRY", amount |-> 10, originalAmount |-> 20],
      [region |-> "Turkey", regionCode |-> "TR", currency |-> "TRY", amount |-> 10, originalAmount |-> 0],
      [region |-> "Japan", regionCode |-> "JP", currency |-> "JPY", amount |-> 10, originalAmount |-> 10],
      [region |-> "United States", regionCode |-> "US", currency |-> "USD", amount |-> -5, originalAmount |-> 10],
      [regionCode |-> "US", amount |-> 10],
      [region |-> "Turkey", currency |-> "TRY", originalAmount |-> 20] }

PriceLists == UNION { [1..n -> PriceInfos] : n \in 0..MaxPrices }

\* bodies that JSON.parse accepts
Payloads ==
    { [title |-> "T1", description |-> "D", coverImageUrl |-> "C1", prices |-> l] : l \in PriceLists }
    \cup { [title |-> "T1", description |-> "D", prices |-> l] : l \in PriceLists }
    \cup { [description |-> "D", coverImageUrl |-> "C1", prices |-> l] : l \in PriceLists }
    \cup { [title |-> "T1", description |-> "D", coverImageUrl |-> "C1"],
           [title |-> "T1", coverImageUrl |-> "C1", prices |-> << >>] }

\* data.results[0] of the metadata provider
RawgGames == { [name |-> n, background_image |-> b] : n \in {"T2", Null}, b \in {"C2", Null} }

RawgOutcomes == {"throw", "notok", "badjson", "noresults", "game"}

----------------------------------------------------------------------------
(* Pure helpers *)

Has(o, k) == k \in DOMAIN o

RECURSIVE Pow2(_)
Pow2(n) == IF n = 0 THEN 1 ELSE 2 * Pow2(n - 1)

\* the backoff starting one step late: 4s, 8s
waitTime_late(n) == BaseDelay * Pow2(n + 1)

\* const waitTime = 2000 * Math.pow(2, i)
waitTime(n) == BaseDelay * Pow2(n)

isRateLimit(e) == e.msg429 \/ e.status = 429 \/ e.str429

isServerBusy(e) == e.msg503 \/ e.status = 503

\* REGIONS.filter(r => selectedRegionCodes.includes(r.code))
activeRegions(codes) == SelectSeq(REGIONS, LAMBDA r : r.code \in codes)

\* the responseSchema: required fields and the enum of regionCode
ConformsPrice(p) ==
    /\ RequiredPrice \subseteq DOMAIN p
    /\ p.regionCode \in SchemaRegionCodes

Conforms(d) ==
    /\ RequiredTop \subseteq DOMAIN d
    /\ \A n \in 1..Len(d.prices) : ConformsPrice(d.prices[n])

\* { ...geminiData, ...rawgData, description: geminiData.description }
Merge(rawg, gem) ==
    [k \in (DOMAIN gem) \cup (DOMAIN rawg) \cup {"description"} |->
        IF k = "description" THEN (IF Has(gem, "description") THEN gem.description ELSE Null)
        ELSE IF Has(rawg, k) THEN rawg[k]
        ELSE gem[k]]

\* p.amount > 0
Positive(p) == Has(p, "amount") /\ p.amount > 0

\* the normalisation filling in a missing originalAmount only
Normalize_absentOnly(p) ==
    IF ~Has(p, "originalAmount")
    THEN [k \in (DOMAIN p) \cup {"originalAmount"} |->
             IF k = "originalAmount" THEN p.amount ELSE p[k]]
    ELSE p

\* the normalisation assigning the wrong way round: amount = originalAmount
Normalize_swapped(p) ==
    IF ~Has(p, "originalAmount") \/ p.originalAmount = 0 \/ p.originalAmount < p.amount
    THEN IF Has(p, "originalAmount")
         THEN [p EXCEPT !.amount = p.originalAmount]
         ELSE [k \in (DOMAIN p) \ {"amount"} |-> p[k]]
    ELSE p

\* if (!p.originalAmount || p.originalAmount < p.amount) p.originalAmount = p.amount
Normalize(p) ==
    IF ~Has(p, "originalAmount") \/ p.originalAmount = 0 \/ p.originalAmount < p.amount
    THEN [k \in (DOMAIN p) \cup {"originalAmount"} |->
             IF k = "originalAmount" THEN p.amount ELSE p[k]]
    ELSE p

\* finalData.prices.filter(...) followed by finalData.prices.forEach(...)
Clean(prices) ==
    LET kept == SelectSeq(prices, Positive)
    IN  [n \in 1..Len(kept) |-> Normalize(kept[n])]

\* fetchRawgMetadata's result for one provider outcome
RawgResult(outcome, game) ==
    IF outcome = "game"
    THEN [title |-> game.name, coverImageUrl |-> game.background_image]
    ELSE EmptyObj

----------------------------------------------------------------------------
(* State machine *)

InitSearch ==
    /\ pc = "idle"
    /\ selectedRegionCodes = {}
    /\ rPc = "idle"
    /\ rawgData = EmptyObj
    /\ rawgRequests = 0
    /\ gPc = "idle"
    /\ i = 0
    /\ lastError = NoError
    /\ geminiData = EmptyObj
    /\ log = << >>
    /\ finalData = EmptyObj
    /\ thrown = NoError

\* entries of the log: a request to the price provider with the regions its
\* prompt lists, a rejected attempt, a backoff delay, a parsed body
Req(codes) ==
    LET asked == activeRegions(codes)
    IN  [ev |-> "req", kind |-> "", ms |-> 0,
         regions |-> [n \in 1..Len(asked) |-> asked[n].code]]

Fail(e) == [ev |-> "fail", kind |-> e.kind, ms |-> 0, regions |-> << >>]

Wait(ms) == [ev |-> "wait", kind |-> "", ms |-> ms, regions |-> << >>]

Ok == [ev |-> "ok", kind |-> "", ms |-> 0, regions |-> << >>]

\* the continuation of searchGamePrices after Promise.all fulfilled:
\* merge, clean, return; a missing prices array makes .filter throw
Finish(rawg, gem) ==
    LET merged == Merge(rawg, gem)
    IN  IF Has(merged, "prices")
        THEN /\ pc' = "returned"
             /\ finalData' = [merged EXCEPT !.prices = Clean(merged.prices)]
             /\ thrown' = thrown
        ELSE /\ pc' = "raised"
             /\ finalData' = finalData
             /\ thrown' = TypeError

\* fetchRawgMetadata up to its await: no key resolves with {} at once
fetchRawgMetadata ==
    /\ IF rawgKey
       THEN rPc' = "request" /\ rawgRequests' = rawgRequests + 1
       ELSE rPc' = "done" /\ rawgRequests' = rawgRequests
    /\ rawgData' = EmptyObj

\* fetchGeminiPrices without the credential check: the request goes out anyway
fetchGeminiPrices_noKeyCheck(codes) ==
    /\ gPc' = "request"
    /\ log' = Append(log, Req(codes))
    /\ i' = 0
    /\ lastError' = NoError
    /\ geminiData' = EmptyObj

\* fetchGeminiPrices up to its await: no key rejects at once, else attempt 0
fetchGeminiPrices(codes) ==
    /\ IF apiKey
       THEN /\ gPc' = "request"
            /\ log' = Append(log, Req(codes))
       ELSE /\ gPc' = "raised"
            /\ log' = log
    /\ i' = 0
    /\ lastError' = NoError
    /\ geminiData' = EmptyObj

\* searchGamePrices up to its await, with the synchronous parts of both
\* fetchers; a fetchGeminiPrices that rejected at once rejects Promise.all
Search(codes) ==
    /\ pc = "idle"
    /\ selectedRegionCodes' = codes
    /\ IF codes = {}
       THEN /\ pc' = "raised"
            /\ thrown' = ValidationError
            /\ UNCHANGED <<rPc, rawgData, rawgRequests, gPc, i, lastError, geminiData, log>>
       ELSE /\ fetchRawgMetadata
            /\ fetchGeminiPrices(codes)
            /\ IF gPc' = "raised"
               THEN pc' = "raised" /\ thrown' = ConfigError
               ELSE pc' = "pending" /\ thrown' = thrown
    /\ UNCHANGED <<apiKey, rawgKey, finalData>>

\* searchGamePrices without the guard on an empty region selection
searchGamePrices_noGuard(codes) ==
    /\ pc = "idle"
    /\ selectedRegionCodes' = codes
    /\ fetchRawgMetadata
    /\ fetchGeminiPrices(codes)
    /\ IF gPc' = "raised"
       THEN pc' = "raised" /\ thrown' = ConfigError
       ELSE pc' = "pending" /\ thrown' = thrown
    /\ UNCHANGED <<historyVars, rateVars, appVars, apiKey, rawgKey, finalData>>

\* a call of searchGamePrices by itself
searchGamePrices(codes) ==
    /\ Search(codes)
    /\ UNCHANGED <<historyVars, rateVars, appVars>>

\* the metadata answer held up while the price fetcher sits in a blocking wait
RawgRespond_blocked(outcome, game) ==
    /\ rPc = "request"
    /\ gPc # "waiting"
    /\ rPc' = "done"
    /\ rawgData' = RawgResult(outcome, game)
    /\ IF pc = "pending" /\ gPc = "returned"
       THEN Finish(rawgData', geminiData)
       ELSE UNCHANGED <<pc, finalData, thrown>>
    /\ UNCHANGED <<historyVars, rateVars, appVars, apiKey, rawgKey, selectedRegionCodes, rawgRequests, gPc, i,
                   lastError, geminiData, log>>

\* the metadata provider answers: fetchRawgMetadata resolves
RawgRespond(outcome, game) ==
    /\ rPc = "request"
    /\ rPc' = "done"
    /\ rawgData' = RawgResult(outcome, game)
    /\ IF pc = "pending" /\ gPc = "returned"
       THEN Finish(rawgData', geminiData)
       ELSE UNCHANGED <<pc, finalData, thrown>>
    /\ UNCHANGED <<historyVars, rateVars, appVars, apiKey, rawgKey, selectedRegionCodes, rawgRequests, gPc, i,
                   lastError, geminiData, log>>

\* the catch block retrying while i < maxRetries: a wait after the last attempt
Catch_offByOne(e) ==
    /\ lastError' = [e EXCEPT !.at = i + 1]
    /\ IF (isRateLimit(e) \/ isServerBusy(e)) /\ i < maxRetries
       THEN /\ gPc' = "waiting"
            /\ log' = log \o << Fail(e), Wait(waitTime(i)) >>
            /\ UNCHANGED <<pc, thrown>>
       ELSE /\ gPc' = "raised"
            /\ log' = Append(log, Fail(e))
            /\ IF pc = "pending"
               THEN pc' = "raised" /\ thrown' = lastError'
               ELSE UNCHANGED <<pc, thrown>>
    /\ UNCHANGED <<i, geminiData, finalData>>

\* the catch block keeping the first error it saw
Catch_firstError(e) ==
    /\ lastError' = IF lastError = NoError THEN [e EXCEPT !.at = i + 1] ELSE lastError
    /\ IF (isRateLimit(e) \/ isServerBusy(e)) /\ i < maxRetries - 1
       THEN /\ gPc' = "waiting"
            /\ log' = log \o << Fail(e), Wait(waitTime(i)) >>
            /\ UNCHANGED <<pc, thrown>>
       ELSE /\ gPc' = "raised"
            /\ log' = Append(log, Fail(e))
            /\ IF pc = "pending"
               THEN pc' = "raised" /\ thrown' = lastError'
               ELSE UNCHANGED <<pc, thrown>>
    /\ UNCHANGED <<i, geminiData, finalData>>

\* the catch block of the retry loop
Catch(e) ==
    /\ lastError' = [e EXCEPT !.at = i + 1]
    /\ IF (isRateLimit(e) \/ isServerBusy(e)) /\ i < maxRetries - 1
       THEN /\ gPc' = "waiting"
            /\ log' = log \o << Fail(e), Wait(waitTime(i)) >>
            /\ UNCHANGED <<pc, thrown>>
       ELSE /\ gPc' = "raised"
            /\ log' = Append(log, Fail(e))
            /\ IF pc = "pending"
               THEN pc' = "raised" /\ thrown' = lastError'
               ELSE UNCHANGED <<pc, thrown>>
    /\ UNCHANGED <<i, geminiData, finalData>>

\* generateContent rejects
GeminiError(e) ==
    /\ gPc = "request"
    /\ Catch(e)
    /\ UNCHANGED <<historyVars, rateVars, appVars, apiKey, rawgKey, selectedRegionCodes, rPc, rawgData, rawgRequests>>

\* generateContent resolves with an empty or absent text
GeminiEmpty ==
    /\ gPc = "request"
    /\ Catch(NoResponseError)
    /\ UNCHANGED <<historyVars, rateVars, appVars, apiKey, rawgKey, selectedRegionCodes, rPc, rawgData, rawgRequests>>

\* generateContent resolves with a text that JSON.parse rejects
GeminiUnparsable(e) ==
    /\ gPc = "request"
    /\ Catch(e)
    /\ UNCHANGED <<historyVars, rateVars, appVars, apiKey, rawgKey, selectedRegionCodes, rPc, rawgData, rawgRequests>>

\* the price result completing the call without the metadata result
GeminiPayload_race(d) ==
    /\ gPc = "request"
    /\ gPc' = "returned"
    /\ geminiData' = d
    /\ log' = Append(log, Ok)
    /\ lastError' = NoError
    /\ i' = 0
    /\ IF pc = "pending"
       THEN Finish(rawgData, d)
       ELSE UNCHANGED <<pc, finalData, thrown>>
    /\ UNCHANGED <<historyVars, rateVars, appVars, apiKey, rawgKey, selectedRegionCodes, rPc, rawgData, rawgRequests>>

\* generateContent resolves with a text that JSON.parse accepts
GeminiPayload(d) ==
    /\ gPc = "request"
    /\ gPc' = "returned"
    /\ geminiData' = d
    /\ log' = Append(log, Ok)
    /\ lastError' = NoError
    /\ i' = 0
    /\ IF pc = "pending" /\ rPc = "done"
       THEN Finish(rawgData, d)
       ELSE UNCHANGED <<pc, finalData, thrown>>
    /\ UNCHANGED <<historyVars, rateVars, appVars, apiKey, rawgKey, selectedRegionCodes, rPc, rawgData, rawgRequests>>

\* the timer of delay never resolving its promise
DelayElapsed_lost ==
    /\ gPc = "waiting"
    /\ UNCHANGED vars

\* the backoff delay elapses: continue, i++, loop test, next attempt
DelayElapsed ==
    /\ gPc = "waiting"
    /\ i' = i + 1
    /\ IF i + 1 < maxRetries
       THEN /\ gPc' = "request"
            /\ log' = Append(log, Req(selectedRegionCodes))
            /\ UNCHANGED <<pc, thrown>>
       ELSE /\ gPc' = "raised"
            /\ log' = log
            /\ IF pc = "pending"
               THEN pc' = "raised" /\ thrown' = lastError
               ELSE UNCHANGED <<pc, thrown>>
    /\ UNCHANGED <<historyVars, rateVars, appVars, apiKey, rawgKey, selectedRegionCodes, rPc, rawgData, rawgRequests,
                   lastError, geminiData, finalData>>

----------------------------------------------------------------------------
(* Numbers: binary floating point, m * 2^e with a significand of Precision *)
(* bits, every operation rounded to nearest, ties to even                  *)

RECURSIVE BitLen(_)
BitLen(n) == IF n = 0 THEN 0 ELSE 1 + BitLen(n \div 2)

Zero == [m |-> 0, e |-> 0]

\* the number nearest to n * 2^e
Round(n, e) ==
    IF n = 0 THEN Zero
    ELSE LET bits == BitLen(n)
         IN  IF bits <= Precision
             THEN [m |-> n * Pow2(Precision - bits), e |-> e - (Precision - bits)]
             ELSE LET k == bits - Precision
                      q == n \div Pow2(k)
                      r == n % Pow2(k)
                      half == Pow2(k - 1)
                      up == r > half \/ (r = half /\ q % 2 = 1)
                      m == IF up THEN q + 1 ELSE q
                  IN  IF m = Pow2(Precision)
                      THEN [m |-> Pow2(Precision - 1), e |-> e + k + 1]
                      ELSE [m |-> m, e |-> e + k]

\* a * b
Times(a, b) == Round(a.m * b.m, a.e + b.e)

\* a / b for b # 0: the quotient to Precision + 2 bits and a sticky bit
Over(a, b) ==
    LET n == a.m * Pow2(Precision + 2)
        q == n \div b.m
        sticky == IF n % b.m = 0 THEN 0 ELSE 1
    IN  Round(2 * q + sticky, a.e - b.e - (Precision + 2) - 1)

\* the number a decimal literal n/d denotes
Num(n, d) == Over(Round(n, 0), Round(d, 0))

One == Num(1, 1)

----------------------------------------------------------------------------
(* Exchange rates and conversion: services/currency.ts *)

FALLBACK_RATES ==
    [USD |-> Num(1, 1), SGD |-> Num(134, 100), TRY |-> Num(325, 10), IDR |-> Num(15600, 1),
     EUR |-> Num(92, 100), GBP |-> Num(79, 100), MYR |-> Num(475, 100), JPY |-> Num(150, 1),
     PHP |-> Num(56, 1)]

\* data.rates of a well-formed answer of the rate provider
FetchedTables ==
    { [USD |-> Num(1, 1), SGD |-> Num(135, 100), TRY |-> Num(33, 1), EUR |-> Num(9, 10)],
      [USD |-> Num(1, 1), TRY |-> Zero, IDR |-> Num(16000, 1), EUR |-> Num(93, 100)] }

\* what the rate provider does: fetch rejects, a non-success status, a body
\* that is not JSON, the JSON null, a JSON object without rates, a rate table
RatesOutcomes == {"throw", "notok", "badjson", "null", "norates", "table"}

Amounts == { Zero, Num(10, 1), Num(99, 2), Num(1299, 1), Num(7, 10) }

FromCurrencies == {"USD", "TRY", "IDR", "XXX"}

ToCurrencies == {"USD", "SGD", "IDR", "EUR"}

\* rates[c] || 1
RateOr1(rates, c) == IF Has(rates, c) /\ rates[c] # Zero THEN rates[c] ELSE One

\* convertPrice multiplying by the target rate without going through the base
convertPrice_noBase(amount, fromCurrency, toCurrency, rates) ==
    Times(amount, RateOr1(rates, toCurrency))

convertPrice(amount, fromCurrency, toCurrency, rates) ==
    LET fromRate == RateOr1(rates, fromCurrency)
        toRate == RateOr1(rates, toCurrency)
        amountInUSD == Over(amount, fromRate)
    IN  Times(amountInUSD, toRate)

\* the value fetchExchangeRates resolves with
RatesResult(outcome, table) ==
    CASE outcome = "table" -> [kind |-> "table", table |-> table]
      [] outcome = "norates" -> [kind |-> "undefined", table |-> EmptyObj]
      [] OTHER -> [kind |-> "table", table |-> FALLBACK_RATES]

NoRates == [kind |-> "null", table |-> EmptyObj]

NoConversion == [amount |-> Zero, from |-> "", to |-> "", out |-> Zero, back |-> Zero,
                 stage |-> "none"]

InitRates ==
    /\ exchangeRates = NoRates
    /\ ratesPc = "idle"
    /\ ratesOut = [outcome |-> "", raised |-> FALSE]
    /\ cv = NoConversion

\* useState(false), useState(null), useState(null)
NoData == [set |-> FALSE, data |-> EmptyObj]

InitAppState ==
    /\ loading = FALSE
    /\ error = Null
    /\ gameData = NoData
    /\ hsPc = "idle"

\* loadRates of the mount effect: fetchExchangeRates sends its request
loadRates ==
    /\ ratesPc = "idle"
    /\ ratesPc' = "request"
    /\ UNCHANGED <<exchangeRates, ratesOut, cv>>
    /\ UNCHANGED <<searchVars, historyVars, appVars>>

\* the rate provider answers: fetchExchangeRates resolves, setExchangeRates
RatesRespond(outcome, table) ==
    /\ ratesPc = "request"
    /\ ratesPc' = "done"
    /\ exchangeRates' = RatesResult(outcome, table)
    /\ ratesOut' = [outcome |-> outcome, raised |-> FALSE]
    /\ UNCHANGED cv
    /\ UNCHANGED <<searchVars, historyVars, appVars>>

\* PriceTable converts an amount once exchangeRates is set
Convert(amount, fromCurrency, toCurrency) ==
    /\ exchangeRates.kind = "table"
    /\ cv' = [amount |-> amount, from |-> fromCurrency, to |-> toCurrency,
              out |-> convertPrice(amount, fromCurrency, toCurrency, exchangeRates.table),
              back |-> Zero, stage |-> "out"]
    /\ UNCHANGED <<exchangeRates, ratesPc, ratesOut>>
    /\ UNCHANGED <<searchVars, historyVars, appVars>>

\* the result converted back into the source currency
ConvertBack ==
    /\ cv.stage = "out"
    /\ cv' = [cv EXCEPT !.back = convertPrice(cv.out, cv.to, cv.from, exchangeRates.table),
                         !.stage = "back"]
    /\ UNCHANGED <<exchangeRates, ratesPc, ratesOut>>
    /\ UNCHANGED <<searchVars, historyVars, appVars>>

----------------------------------------------------------------------------
(* Price history store: services/history.ts *)

\* a title is a sequence of characters; SIGMA is the Greek capital sigma,
\* sigma the small sigma and fsigma the small final sigma
Titles == { << "E", "R" >>, << " ", "e", "R", " " >>,
            << "O", "SIGMA" >>, << "o", "sigma" >> }

\* the titles and regions the chart asks the history of
QueryTitles == { << " ", "e", "R", " " >>, << "o", "sigma" >> }

QueryRegions == {"US", "SG"}

\* the days the clock of the device can show (new Date() is not monotonic:
\* the user or a time sync can set it back)
Days == {1, 2}

HistoryRegions == {"US", "TR"}

\* the prices handed to savePriceHistory
Batches ==
    { << >>,
      << [regionCode |-> "US", amount |-> 10] >>,
      << [regionCode |-> "US", amount |-> 20] >>,
      << [regionCode |-> "TR", amount |-> 10] >>,
      << [regionCode |-> "US", amount |-> 10], [regionCode |-> "TR", amount |-> 20] >>,
      << [regionCode |-> "TR", amount |-> 10], [regionCode |-> "US", amount |-> 20] >>,
      << [regionCode |-> "US", amount |-> 10], [regionCode |-> "US", amount |-> 20] >> }

\* what localStorage does on this call: nothing special, getItem throws
\* (storage disabled), setItem throws (quota exceeded)
Faults == {"none", "getItem", "setItem"}

Absent == [kind |-> "absent", value |-> EmptyObj]

Malformed == [kind |-> "malformed", value |-> EmptyObj]

\* the item holds the text null: JSON, but not an object
JsonNull == [kind |-> "null", value |-> EmptyObj]

\* JSON.stringify(db): a text that JSON.parse gives back as db
Stringify(db) == [kind |-> "json", value |-> db]

\* JSON.parse(rawData) throws on a text that is not JSON
ParseThrows(raw) == raw.kind = "malformed"

Letters == {"E", "R", "H", "O", "T", "SIGMA", "e", "r", "h", "o", "t", "sigma", "fsigma"}

\* the lower-case mapping of one character that does not depend on its place
String_toLowerCase(c) ==
    CASE c = "E" -> "e"
      [] c = "R" -> "r"
      [] c = "H" -> "h"
      [] c = "O" -> "o"
      [] c = "T" -> "t"
      [] c = "SIGMA" -> "sigma"
      [] OTHER -> c

\* a capital sigma that ends a word: a letter before it and none after it
Final_Sigma(t, n) ==
    /\ t[n] = "SIGMA"
    /\ n > 1 /\ t[n - 1] \in Letters
    /\ ~(n < Len(t) /\ t[n + 1] \in Letters)

\* String.prototype.toLowerCase: the Unicode default case conversion, in
\* which a capital sigma at the end of a word becomes the final sigma
toLowerCase(t) ==
    [n \in 1..Len(t) |-> IF Final_Sigma(t, n) THEN "fsigma" ELSE String_toLowerCase(t[n])]

RECURSIVE trimStart(_)
trimStart(t) == IF t # << >> /\ Head(t) = " " THEN trimStart(Tail(t)) ELSE t

RECURSIVE trimEnd(_)
trimEnd(t) == IF t # << >> /\ t[Len(t)] = " " THEN trimEnd(SubSeq(t, 1, Len(t) - 1)) ELSE t

trim(t) == trimEnd(trimStart(t))

\* const key = gameTitle.toLowerCase().trim()
Key(title) == trim(toLowerCase(title))

\* o[k] = v on an object that forgets its other keys
Put_dropOthers(o, k, v) == [x \in {k} |-> v]

\* o[k] = v on an object
Put(o, k, v) == [x \in (DOMAIN o) \cup {k} |-> IF x = k THEN v ELSE o[x]]

\* the body of prices.forEach always pushing a new point
RecordPrice_alwaysPush(g, price, today) ==
    LET history == IF Has(g, price.regionCode) THEN g[price.regionCode] ELSE << >>
    IN  Put(g, price.regionCode, Append(history, [date |-> today, amount |-> price.amount]))

\* the body of prices.forEach, on the region map db[key]
RecordPrice(g, price, today) ==
    LET history == IF Has(g, price.regionCode) THEN g[price.regionCode] ELSE << >>
        n == Len(history)
    IN  IF n > 0 /\ history[n].date = today
        THEN Put(g, price.regionCode, [history EXCEPT ![n].amount = price.amount])
        ELSE Put(g, price.regionCode, Append(history, [date |-> today, amount |-> price.amount]))

RECURSIVE RecordPrices(_, _, _)
RecordPrices(g, prices, today) ==
    IF prices = << >> THEN g
    ELSE RecordPrices(RecordPrice(g, Head(prices), today), Tail(prices), today)

\* the try block of savePriceHistory with setItem moved into the forEach: the
\* document is written after every entry, and a full quota fails the last write
TrySave_writeEach(raw, title, prices, today, fault) ==
    IF fault = "getItem" THEN [threw |-> TRUE, item |-> raw, writes |-> 0]
    ELSE IF raw.kind # "absent" /\ ParseThrows(raw) THEN [threw |-> TRUE, item |-> raw, writes |-> 0]
    ELSE IF raw.kind = "null" THEN [threw |-> TRUE, item |-> raw, writes |-> 0]
    ELSE LET db == IF raw.kind = "absent" THEN EmptyObj ELSE raw.value
             key == Key(title)
             g == IF Has(db, key) THEN db[key] ELSE EmptyObj
             n == Len(prices)
             done == IF fault = "setItem" /\ n > 0 THEN SubSeq(prices, 1, n - 1) ELSE prices
             db2 == Put(db, key, RecordPrices(g, done, today))
         IN  [threw |-> fault = "setItem" /\ n > 0,
              item |-> IF Len(done) = 0 THEN raw ELSE Stringify(db2),
              writes |-> n]

\* the try block of savePriceHistory: whether it threw, the item it leaves,
\* and how many times it called setItem
TrySave(raw, title, prices, today, fault) ==
    IF fault = "getItem" THEN [threw |-> TRUE, item |-> raw, writes |-> 0]
    ELSE IF raw.kind # "absent" /\ ParseThrows(raw) THEN [threw |-> TRUE, item |-> raw, writes |-> 0]
    ELSE IF raw.kind = "null" THEN [threw |-> TRUE, item |-> raw, writes |-> 0]
    ELSE LET db == IF raw.kind = "absent" THEN EmptyObj ELSE raw.value
             key == Key(title)
             g == IF Has(db, key) THEN db[key] ELSE EmptyObj
             db2 == Put(db, key, RecordPrices(g, prices, today))
         IN  IF fault = "setItem" THEN [threw |-> TRUE, item |-> raw, writes |-> 1]
             ELSE [threw |-> FALSE, item |-> Stringify(db2), writes |-> 1]

\* the try block of getPriceHistory looking the title up as it is given
TryGet_rawTitle(raw, title, regionCode, fault) ==
    IF fault = "getItem" THEN [threw |-> TRUE, value |-> << >>]
    ELSE IF raw.kind = "absent" THEN [threw |-> FALSE, value |-> << >>]
    ELSE IF ParseThrows(raw) THEN [threw |-> TRUE, value |-> << >>]
    ELSE IF raw.kind = "null" THEN [threw |-> TRUE, value |-> << >>]
    ELSE LET db == raw.value
         IN  [threw |-> FALSE,
              value |-> IF Has(db, title) /\ Has(db[title], regionCode)
                        THEN db[title][regionCode] ELSE << >>]

\* the try block of getPriceHistory: whether it threw, and its value
TryGet(raw, title, regionCode, fault) ==
    IF fault = "getItem" THEN [threw |-> TRUE, value |-> << >>]
    ELSE IF raw.kind = "absent" THEN [threw |-> FALSE, value |-> << >>]
    ELSE IF ParseThrows(raw) THEN [threw |-> TRUE, value |-> << >>]
    ELSE IF raw.kind = "null" THEN [threw |-> TRUE, value |-> << >>]
    ELSE LET db == raw.value
             key == Key(title)
         IN  [threw |-> FALSE,
              value |-> IF Has(db, key) /\ Has(db[key], regionCode)
                        THEN db[key][regionCode] ELSE << >>]

NoArgs == [title |-> << >>, prices |-> << >>, today |-> 0, regionCode |-> "", fault |-> "none"]

NoOut == [raised |-> FALSE, value |-> << >>, writes |-> 0]

InitHistory ==
    /\ storage = Absent
    /\ hCalls = 0
    /\ hOp = "none"
    /\ hArgs = NoArgs
    /\ hPrev = Absent
    /\ hOut = NoOut

\* savePriceHistory without its try/catch
savePriceHistory_noCatch(title, prices, today, fault) ==
    /\ hCalls < MaxCalls
    /\ LET r == TrySave(storage, title, prices, today, fault)
       IN  /\ storage' = r.item
           /\ hOut' = [raised |-> r.threw, value |-> << >>, writes |-> r.writes]
    /\ hCalls' = hCalls + 1
    /\ hOp' = "record"
    /\ hArgs' = [title |-> title, prices |-> prices, today |-> today, regionCode |-> "",
                 fault |-> fault]
    /\ hPrev' = storage
    /\ UNCHANGED <<searchVars, rateVars, appVars>>

\* savePriceHistory: the catch logs and swallows whatever the try block threw
savePriceHistory(title, prices, today, fault) ==
    /\ hCalls < MaxCalls
    /\ LET r == TrySave(storage, title, prices, today, fault)
       IN  /\ storage' = r.item
           /\ hOut' = [raised |-> FALSE, value |-> << >>, writes |-> r.writes]
    /\ hCalls' = hCalls + 1
    /\ hOp' = "record"
    /\ hArgs' = [title |-> title, prices |-> prices, today |-> today, regionCode |-> "",
                 fault |-> fault]
    /\ hPrev' = storage
    /\ UNCHANGED <<searchVars, rateVars, appVars>>

\* getPriceHistory: the catch returns []
getPriceHistory(title, regionCode, fault) ==
    /\ LET r == TryGet(storage, title, regionCode, fault)
       IN  hOut' = [raised |-> FALSE, value |-> r.value, writes |-> 0]
    /\ hOp' = "query"
    /\ hArgs' = [title |-> title, prices |-> << >>, today |-> 0, regionCode |-> regionCode,
                 fault |-> fault]
    /\ hPrev' = storage
    /\ UNCHANGED <<storage, hCalls>>
    /\ UNCHANGED <<searchVars, rateVars, appVars>>

\* the item a session can find in localStorage when it starts: nothing, a
\* text that is not JSON, the text null, or what an earlier session wrote
StoredItems ==
    { Absent, Malformed, JsonNull,
      Stringify(Put(EmptyObj, << "e", "r" >>,
                    Put(EmptyObj, "US", << [date |-> 2, amount |-> 10] >>))) }

InitStored ==
    /\ apiKey = TRUE
    /\ rawgKey = TRUE
    /\ InitSearch
    /\ storage \in StoredItems
    /\ hCalls = 0
    /\ hOp = "none"
    /\ hArgs = NoArgs
    /\ hPrev = storage
    /\ hOut = NoOut
    /\ InitRates
    /\ InitAppState

NextHistory ==
    \/ \E t \in Titles, b \in Batches, d \in Days, f \in Faults : savePriceHistory(t, b, d, f)
    \/ \E t \in QueryTitles, r \in QueryRegions, f \in {"none", "getItem"} :
          getPriceHistory(t, r, f)

SpecHistory == InitStored /\ [][NextHistory]_vars

----------------------------------------------------------------------------
(* Rates and conversion on their own *)

InitCurrency ==
    /\ apiKey = TRUE
    /\ rawgKey = TRUE
    /\ InitSearch
    /\ InitHistory
    /\ InitRates
    /\ InitAppState

NextCurrency ==
    \/ loadRates
    \/ \E o \in RatesOutcomes, t \in FetchedTables : RatesRespond(o, t)
    \/ \E a \in Amounts, f \in FromCurrencies, t \in ToCurrencies : Convert(a, f, t)
    \/ ConvertBack

SpecCurrency == InitCurrency /\ [][NextCurrency]_vars

----------------------------------------------------------------------------
(* The search call *)

Init ==
    /\ apiKey \in BOOLEAN
    /\ rawgKey \in BOOLEAN
    /\ InitSearch
    /\ InitHistory
    /\ InitRates
    /\ InitAppState

Next ==
    \/ \E codes \in RegionChoices : searchGamePrices(codes)
    \/ \E o \in RawgOutcomes, g \in RawgGames : RawgRespond(o, g)
    \/ \E e \in ProviderErrors : GeminiError(e)
    \/ GeminiEmpty
    \/ \E e \in SyntaxErrors : GeminiUnparsable(e)
    \/ \E d \in Payloads : GeminiPayload(d)
    \/ DelayElapsed

Spec == Init /\ [][Next]_vars

\* the bodies of the termination runs: at most one price entry
LivePayloads == { d \in Payloads : Has(d, "prices") => Len(d.prices) <= 1 }

\* the price provider answers a request in flight, one way or another
ProviderResponds ==
    \/ \E e \in ProviderErrors : GeminiError(e)
    \/ GeminiEmpty
    \/ \E e \in SyntaxErrors : GeminiUnparsable(e)
    \/ \E d \in LivePayloads : GeminiPayload(d)

\* the metadata provider answers a request in flight
MetadataResponds == \E o \in RawgOutcomes, g \in RawgGames : RawgRespond(o, g)

NextLive ==
    \/ \E codes \in RegionChoices : searchGamePrices(codes)
    \/ \E o \in RawgOutcomes, g \in RawgGames : RawgRespond(o, g)
    \/ \E e \in ProviderErrors : GeminiError(e)
    \/ GeminiEmpty
    \/ \E e \in SyntaxErrors : GeminiUnparsable(e)
    \/ \E d \in LivePayloads : GeminiPayload(d)
    \/ DelayElapsed

\* every request is answered in the end and every timer fires in the end
SpecLive ==
    /\ Init
    /\ [][NextLive]_vars
    /\ WF_vars(ProviderResponds)
    /\ WF_vars(MetadataResponds)
    /\ WF_vars(DelayElapsed)

----------------------------------------------------------------------------
(* The search form: handleSearch of App.tsx *)

\* what the search box holds when the form is submitted; the submit button is
\* disabled while it is empty
SearchTerms == { << " " >>, << "E", "R" >> }

\* the regions ticked when the form is submitted; the submit button is
\* disabled while none is ticked
SelectedRegions == { {"US"}, {"US", "TR"} }

\* the answers of the price provider in the runs of the form
AppPayloads ==
    { [title |-> "T1", description |-> "D", coverImageUrl |-> "C1",
       prices |-> << [region |-> "United States", regionCode |-> "US", currency |-> "USD",
                      amount |-> 10] >>],
      [title |-> "T1", description |-> "D", coverImageUrl |-> "C1",
       prices |-> << [region |-> "United States", regionCode |-> "US", currency |-> "USD",
                      amount |-> 0] >>],
      [description |-> "D", coverImageUrl |-> "C1",
       prices |-> << [region |-> "United States", regionCode |-> "US", currency |-> "USD",
                      amount |-> 10] >>],
      [title |-> "T1", description |-> "D", coverImageUrl |-> "C1"] }

AppErrors == { e \in ProviderErrors : e.status # 0 }

\* the characters of a title string
Chars(t) ==
    CASE t = "T1" -> << "T", "1" >>
      [] t = "T2" -> << "T", "2" >>

\* the message handleSearch shows for what searchGamePrices raised
ErrorMessage(e) ==
    CASE e.msg429 -> "quota"
      [] e.kind = "config" -> "apikey"
      [] e.msg503 -> "busy"
      [] OTHER -> "generic"

\* savePriceHistory(data.title, data.prices): a title that is null or
\* undefined makes gameTitle.toLowerCase() throw inside the try block
SaveData(raw, data, today, fault) ==
    IF ~Has(data, "title") \/ data.title = Null
    THEN [threw |-> TRUE, item |-> raw, writes |-> 0, title |-> << >>]
    ELSE LET r == TrySave(raw, Chars(data.title), data.prices, today, fault)
         IN  [threw |-> r.threw, item |-> r.item, writes |-> r.writes,
              title |-> Chars(data.title)]

\* the locals of a call of searchGamePrices that has ended are gone
SearchEnds ==
    /\ pc' = "idle"
    /\ selectedRegionCodes' = {}
    /\ rPc' = "idle"
    /\ rawgData' = EmptyObj
    /\ rawgRequests' = 0
    /\ gPc' = "idle"
    /\ i' = 0
    /\ lastError' = NoError
    /\ geminiData' = EmptyObj
    /\ log' = << >>
    /\ finalData' = EmptyObj
    /\ thrown' = NoError
    /\ UNCHANGED <<apiKey, rawgKey>>

\* handleSearch up to its await; the form can be submitted while the submit
\* button is enabled: not loading, a search term, a region ticked
handleSearch(searchTerm, selectedRegions) ==
    /\ ~loading
    /\ hsPc # "awaiting"
    /\ hCalls < MaxCalls
    /\ searchTerm # << >>
    /\ selectedRegions # {}
    /\ IF trim(searchTerm) = << >>
       THEN UNCHANGED <<searchVars, historyVars, appVars>>
       ELSE /\ loading' = TRUE
            /\ error' = Null
            /\ gameData' = NoData
            /\ hsPc' = "awaiting"
            /\ Search(selectedRegions)
            /\ hOp' = "none"
            /\ hArgs' = NoArgs
            /\ hPrev' = storage
            /\ hOut' = NoOut
            /\ UNCHANGED <<storage, hCalls>>
    /\ UNCHANGED rateVars

\* handleSearch leaving the spinner on when the search raised
handleSearchResumes_noFinally(today, fault) ==
    /\ hsPc = "awaiting"
    /\ pc \in {"returned", "raised"}
    /\ IF pc = "returned"
       THEN /\ gameData' = [set |-> TRUE, data |-> finalData]
            /\ error' = error
            /\ loading' = FALSE
            /\ IF finalData.prices # << >>
               THEN LET r == SaveData(storage, finalData, today, fault)
                    IN  /\ storage' = r.item
                        /\ hCalls' = hCalls + 1
                        /\ hOp' = "record"
                        /\ hArgs' = [title |-> r.title, prices |-> finalData.prices,
                                     today |-> today, regionCode |-> "", fault |-> fault]
                        /\ hPrev' = storage
                        /\ hOut' = [raised |-> FALSE, value |-> << >>, writes |-> r.writes]
               ELSE UNCHANGED historyVars
       ELSE /\ error' = ErrorMessage(thrown)
            /\ loading' = TRUE
            /\ UNCHANGED <<gameData, historyVars>>
    /\ hsPc' = "ended"
    /\ SearchEnds
    /\ UNCHANGED rateVars

\* handleSearch after its await: searchGamePrices has returned or raised;
\* setGameData and savePriceHistory, or setError; finally setLoading(false)
handleSearchResumes(today, fault) ==
    /\ hsPc = "awaiting"
    /\ pc \in {"returned", "raised"}
    /\ IF pc = "returned"
       THEN /\ gameData' = [set |-> TRUE, data |-> finalData]
            /\ error' = error
            /\ IF finalData.prices # << >>
               THEN LET r == SaveData(storage, finalData, today, fault)
                    IN  /\ storage' = r.item
                        /\ hCalls' = hCalls + 1
                        /\ hOp' = "record"
                        /\ hArgs' = [title |-> r.title, prices |-> finalData.prices,
                                     today |-> today, regionCode |-> "", fault |-> fault]
                        /\ hPrev' = storage
                        /\ hOut' = [raised |-> FALSE, value |-> << >>, writes |-> r.writes]
               ELSE UNCHANGED historyVars
       ELSE /\ error' = ErrorMessage(thrown)
            /\ UNCHANGED <<gameData, historyVars>>
    /\ loading' = FALSE
    /\ hsPc' = "ended"
    /\ SearchEnds
    /\ UNCHANGED rateVars

InitApp ==
    /\ apiKey \in BOOLEAN
    /\ rawgKey \in BOOLEAN
    /\ InitSearch
    /\ InitHistory
    /\ InitRates
    /\ InitAppState

NextApp ==
    \/ \E t \in SearchTerms, codes \in SelectedRegions : handleSearch(t, codes)
    \/ \E o \in RawgOutcomes, g \in RawgGames : RawgRespond(o, g)
    \/ \E e \in AppErrors : GeminiError(e)
    \/ GeminiEmpty
    \/ \E d \in AppPayloads : GeminiPayload(d)
    \/ DelayElapsed
    \/ \E d \in Days, f \in {"none", "setItem"} : handleSearchResumes(d, f)

SpecApp == InitApp /\ [][NextApp]_vars

----------------------------------------------------------------------------
(* What the log shows *)

Events(ev) == SelectSeq(log, LAMBDA x : x.ev = ev)

Attempts == Len(Events("req"))

WaitsMs == [n \in 1..Len(Events("wait")) |-> Events("wait")[n].ms]

FailKinds == [n \in 1..Len(Events("fail")) |-> Events("fail")[n].kind]

----------------------------------------------------------------------------
(* Claims *)

C2_BackoffSchedule ==
    (gPc = "returned" /\ FailKinds = << "429", "429" >>)
      => /\ [n \in DOMAIN log |-> log[n].ev]
              = << "req", "fail", "wait", "req", "fail", "wait", "req", "ok" >>
         /\ WaitsMs = << 2000, 4000 >>
         /\ Attempts = 3
         /\ geminiData \in Payloads

C2_Witness ==
    /\ gPc = "returned"
    /\ FailKinds = << "429", "429" >>
    /\ WaitsMs = << 2000, 4000 >>

\* C3: an attempt is retried only after a rate-limit (429) or overload (503)
\* error; an attempt that ended in any other error, an empty body or an
\* unparsable body is the last thing that happened and the call has raised,
\* and a body that does not conform to the schema is never returned.
C3_OnlyTransientRetried ==
    /\ \A n \in DOMAIN log :
          (log[n].ev = "fail" /\ log[n].kind \notin {"429", "503"})
            => (n = Len(log) /\ gPc = "raised" /\ pc = "raised")
    /\ gPc = "returned" => Conforms(geminiData)

\* C4: what fetchGeminiPrices returns conforms to the response schema, and an
\* empty or absent body ends the attempt, and the call, with an error.
C4_SchemaEnforced ==
    /\ gPc = "returned" => Conforms(geminiData)
    /\ \A n \in DOMAIN log :
          (log[n].ev = "fail" /\ log[n].kind = "empty") => (n = Len(log) /\ gPc = "raised")

\* C5: a call with an empty region set has raised the validation error, and
\* no metadata request and no price request was ever started.
C5_EmptyRegionsValidation ==
    (pc # "idle" /\ selectedRegionCodes = {})
      => /\ pc = "raised"
         /\ thrown = ValidationError
         /\ rawgRequests = 0
         /\ log = << >>
         /\ rPc = "idle"
         /\ gPc = "idle"

C5_Witness ==
    /\ pc = "raised"
    /\ selectedRegionCodes = {}
    /\ thrown.kind = "validation"

\* C6: without a price-provider credential a call with a non-empty region set
\* has raised the configuration error of fetchGeminiPrices: no price request,
\* no wait, and nothing is returned.
C6_MissingCredential ==
    (~apiKey /\ pc # "idle" /\ selectedRegionCodes # {})
      => /\ pc = "raised"
         /\ gPc = "raised"
         /\ thrown = ConfigError
         /\ log = << >>
         /\ DOMAIN finalData = {}

C6_Witness ==
    /\ ~apiKey
    /\ selectedRegionCodes # {}
    /\ pc = "raised"
    /\ thrown.kind = "config"

\* C7 as claimed: for a non-empty region set both fetchers are started at
\* once, and the call has completed (returned or raised) only when both
\* fetchers have finished.
C7_CompletesAfterBoth ==
    /\ (pc # "idle" /\ selectedRegionCodes # {}) => (rPc # "idle" /\ gPc # "idle")
    /\ (pc \in {"returned", "raised"} /\ selectedRegionCodes # {})
          => (rPc = "done" /\ gPc \in {"returned", "raised"})

\* C7 amended: for a non-empty region set both fetchers are started at once;
\* the call returns only when both have finished; it raises as soon as the
\* price fetcher fails, whether or not the metadata fetch is still in
\* flight, or when the merge itself fails after both have finished; and it
\* stays pending only while one of them is unfinished.
C7_ReturnsAfterBoth ==
    /\ (pc # "idle" /\ selectedRegionCodes # {}) => (rPc # "idle" /\ gPc # "idle")
    /\ pc = "returned" => (rPc = "done" /\ gPc = "returned")
    /\ (pc = "raised" /\ selectedRegionCodes # {})
          => (gPc = "raised" \/ (rPc = "done" /\ gPc = "returned"))
    /\ gPc = "raised" => pc = "raised"
    /\ pc = "pending" => (rPc = "request" \/ gPc \in {"request", "waiting"})

C7_Witness ==
    /\ pc = "raised"
    /\ gPc = "raised"
    /\ rPc = "request"
    /\ Attempts >= 1

\* C8: every entry of the returned prices has amount > 0 and an
\* originalAmount >= amount; the returned entries are, in order, the
\* provider's entries with amount > 0, each with originalAmount raised to
\* amount when it was absent or smaller and kept otherwise.
C8_CleanedPrices ==
    pc = "returned" =>
      LET src == geminiData.prices
          out == finalData.prices
          kept == { n \in DOMAIN src : Has(src[n], "amount") /\ src[n].amount > 0 }
      IN  /\ \A m \in DOMAIN out :
                /\ Has(out[m], "amount") /\ out[m].amount > 0
                /\ Has(out[m], "originalAmount")
                /\ out[m].originalAmount >= out[m].amount
          /\ Len(out) = Cardinality(kept)
          /\ \A n \in kept :
                LET q == out[Cardinality({ j \in kept : j <= n })]
                    p == src[n]
                IN  /\ q.amount = p.amount
                    /\ \A k \in DOMAIN p \ {"originalAmount"} : q[k] = p[k]
                    /\ q.originalAmount =
                          IF Has(p, "originalAmount") /\ p.originalAmount >= p.amount
                          THEN p.originalAmount ELSE p.amount

C8_Witness ==
    /\ pc = "returned"
    /\ Len(geminiData.prices) = 2
    /\ Has(geminiData.prices[1], "amount")
    /\ geminiData.prices[1].amount = 0
    /\ Has(geminiData.prices[2], "originalAmount")
    /\ geminiData.prices[2].originalAmount = 5
    /\ Len(finalData.prices) = 1
    /\ finalData.prices[1].originalAmount = 10

\* C9: every entry of the returned prices has a regionCode that is one of
\* the region codes passed to the call.
C9_SubsetOfInput ==
    pc = "returned" =>
      \A n \in DOMAIN finalData.prices :
          /\ Has(finalData.prices[n], "regionCode")
          /\ finalData.prices[n].regionCode \in selectedRegionCodes

Field(o, k) == IF Has(o, k) THEN o[k] ELSE Null

\* C10: the returned title and coverImageUrl are the metadata's where the
\* metadata has a value and the AI result's where it has none; the
\* description is the AI result's.
C10_MergePrecedence ==
    pc = "returned" =>
      /\ \A k \in {"title", "coverImageUrl"} :
            Field(finalData, k) =
              IF Field(rawgData, k) # Null THEN rawgData[k] ELSE Field(geminiData, k)
      /\ Field(finalData, "description") = Field(geminiData, "description")

\* C16: the metadata fetcher never raises: without a credential it resolves
\* with the empty result and no request is sent; a transport error, a
\* non-success status, an unreadable body or an empty result set resolve
\* with the empty result; and a call with a non-empty region set has raised
\* only if the price fetcher ended in an error.
C16_OnlyPriceFetcherFails ==
    /\ rPc \in {"idle", "request", "done"}
    /\ ~rawgKey => (rawgRequests = 0 /\ DOMAIN rawgData = {})
    /\ (rPc = "done" /\ DOMAIN rawgData # {}) => rawgRequests = 1
    /\ (pc = "raised" /\ selectedRegionCodes # {}) => gPc = "raised"

\* C17: cleaning the prices a call returned once more changes nothing, and
\* so does merging the returned data with the same metadata again.
C17_CleanIdempotent ==
    pc = "returned" =>
      /\ Clean(finalData.prices) = finalData.prices
      /\ Merge(rawgData, finalData) = finalData

C17_Witness ==
    /\ pc = "returned"
    /\ Len(geminiData.prices) = 2
    /\ Len(finalData.prices) = 1
    /\ Has(geminiData.prices[2], "amount")
    /\ ~Has(geminiData.prices[2], "originalAmount")
    /\ finalData.prices[1].originalAmount = 10
    /\ DOMAIN rawgData # {}

\* C19: when fetchGeminiPrices has raised after at least one attempt, what
\* is raised is the error of the last attempt that ran, never an earlier
\* one: after 429, 429, 429 the third 429; after a 429 and then another kind
\* of provider error, that error, after 2 attempts and one wait.
C19_LastErrorRaised ==
    (gPc = "raised" /\ apiKey) =>
      /\ pc = "raised"
      /\ Len(FailKinds) = Attempts
      /\ thrown.at = Attempts
      /\ thrown.kind = FailKinds[Attempts]
      /\ thrown = lastError
      /\ FailKinds = << "429", "429", "429" >> => thrown.at = 3
      /\ (Len(FailKinds) = 2 /\ FailKinds[1] = "429" /\ FailKinds[2] \in {"other", "empty"})
            => (Attempts = 2 /\ WaitsMs = << 2000 >> /\ thrown.at = 2)

C19_Witness ==
    /\ gPc = "raised"
    /\ FailKinds = << "429", "other" >>
    /\ thrown.kind = "other"
    /\ WaitsMs = << 2000 >>

\* the variables of each fetcher
geminiVars == <<gPc, i, lastError, geminiData, log>>

metadataVars == <<rPc, rawgData, rawgRequests>>

\* C20: while the price fetcher is suspended in its backoff delay and the
\* metadata request is in flight, the metadata fetcher can complete; and
\* once the call has started no step changes the state of both fetchers:
\* a step of one leaves the other's state, and so its result, alone.
C20_BackoffBlocksOnlyItself ==
    /\ [](( gPc = "waiting" /\ rPc = "request")
            => ENABLED (\E o \in RawgOutcomes, g \in RawgGames : RawgRespond(o, g)))
    /\ [][ pc # "idle" => (geminiVars' = geminiVars \/ metadataVars' = metadataVars) ]_vars
    /\ [][ (gPc = "waiting" /\ rPc' # rPc) => (rPc' = "done" /\ gPc' = "waiting") ]_vars

C20_Witness ==
    /\ gPc = "waiting"
    /\ rPc = "request"
    /\ WaitsMs = << 2000 >>

----------------------------------------------------------------------------
(* What the stored item shows *)

\* the series of one game key and region in a stored item, empty if there is none
Series(item, key, rc) ==
    IF item.kind = "json" /\ Has(item.value, key) /\ Has(item.value[key], rc)
    THEN item.value[key][rc] ELSE << >>

\* the regions a batch names, and the amount of its last entry for a region
BatchRegions(prices) == { prices[n].regionCode : n \in DOMAIN prices }

LastAmount(prices, rc) ==
    LET at == { n \in DOMAIN prices : prices[n].regionCode = rc }
    IN  prices[CHOOSE n \in at : \A m \in at : m <= n].amount

PointsOn(series, day) == { n \in DOMAIN series : series[n].date = day }

\* the last call was a record call that met no storage fault on a readable store
RecordedOk == hOp = "record" /\ hArgs.fault = "none" /\ hPrev.kind \in {"absent", "json"}

\* C11: every series of the stored document holds at most one point per day.
C11_OnePointPerDay ==
    storage.kind = "json" =>
      \A k \in DOMAIN storage.value : \A rc \in DOMAIN storage.value[k] :
          \A a, b \in DOMAIN storage.value[k][rc] :
              a # b => storage.value[k][rc][a].date # storage.value[k][rc][b].date

C13_HistoryNeverRaises ==
    /\ ~hOut.raised
    /\ (hOp = "record" /\ (hArgs.fault # "none" \/ hPrev.kind \in {"malformed", "null"}))
          => storage = hPrev
    /\ hOp = "query" => storage = hPrev

C13_Witness ==
    /\ hOp = "record"
    /\ hArgs.fault = "setItem"
    /\ hArgs.prices # << >>
    /\ hPrev.kind = "json"
    /\ ~hOut.raised
    /\ storage = hPrev

\* C14: a query on an absent or unreadable item returns the empty sequence,
\* and a record call on such an item leaves a well-formed document that
\* holds the points of its batch, as if the store had been empty.
C14_MalformedAsEmpty ==
    /\ (hOp = "query" /\ hPrev.kind \in {"absent", "malformed", "null"})
          => (hOut.value = << >> /\ ~hOut.raised)
    /\ (hOp = "record" /\ hArgs.fault = "none" /\ hPrev.kind \in {"absent", "malformed", "null"})
          => /\ storage.kind = "json"
             /\ \A rc \in BatchRegions(hArgs.prices) :
                   Series(storage, Key(hArgs.title), rc)
                     = << [date |-> hArgs.today, amount |-> LastAmount(hArgs.prices, rc)] >>

----------------------------------------------------------------------------
(* What the rate table and a conversion show *)

\* x and y differ by at most 2^-(Precision - 3) of y
Close(x, y) ==
    IF x.m = 0 \/ y.m = 0 THEN x.m = y.m
    ELSE LET d == x.e - y.e
         IN  /\ d \in {-1, 0, 1}
             /\ LET e0 == IF d < 0 THEN x.e ELSE y.e
                     X == x.m * Pow2(x.e - e0)
                     Y == y.m * Pow2(y.e - e0)
                     diff == IF X < Y THEN Y - X ELSE X - Y
                 IN  diff * Pow2(Precision - 3) <= Y

\* the rate the text gives a code: its entry, 1 if rates has none
Rate1(rates, c) == IF Has(rates, c) THEN rates[c] ELSE One

\* C15: fetchExchangeRates never raises and always hands back a rate table:
\* whenever the provider did not answer with a rate table (transport failure,
\* non-success status, a body that is not JSON, JSON without a rate table)
\* the table is the static fallback table.
C15_AlwaysUsableTable ==
    ratesPc = "done" =>
        /\ ~ratesOut.raised
        /\ exchangeRates.kind = "table"
        /\ ratesOut.outcome # "table" => exchangeRates.table = FALLBACK_RATES

\* C18: an amount converted from A to B and back to A is the amount again,
\* within tolerance, for every pair of codes; a code that rates does not hold
\* counts as rate 1, so the conversion yields amount / rate(A) * rate(B) with
\* 1 for the missing rate.
C18_RoundTrip ==
    /\ cv.stage = "back" => Close(cv.back, cv.amount)
    /\ LET rates == exchangeRates.table
       IN  /\ cv.stage # "none"
           /\ ~Has(rates, cv.from) \/ ~Has(rates, cv.to)
           /\ Rate1(rates, cv.from) # Zero
           /\ Rate1(rates, cv.to) # Zero
           => cv.out = Times(Over(cv.amount, Rate1(rates, cv.from)), Rate1(rates, cv.to))

\* 49.5 TRY went to SGD, both in the fallback table, and came back close to
\* 49.5 but not equal to it
C18_Witness ==
    /\ cv.stage = "back"
    /\ exchangeRates.table = FALLBACK_RATES
    /\ cv.from = "TRY"
    /\ cv.to = "SGD"
    /\ cv.out # cv.amount
    /\ cv.back # cv.amount

----------------------------------------------------------------------------
(* What a record call as a whole shows *)

\* every entry of the batch of the last call is in the stored item: each
\* region of the batch ends with the point {today, its last amount}
BatchApplied ==
    \A rc \in BatchRegions(hArgs.prices) :
        LET new == Series(storage, Key(hArgs.title), rc)
        IN  /\ new # << >>
            /\ new[Len(new)] = [date |-> hArgs.today,
                                amount |-> LastAmount(hArgs.prices, rc)]

\* C21: a record call writes the stored document at most once, and after it
\* the stored item either holds every entry of the batch or is the item the
\* call found: never a part of the batch.
C21_BatchAtomic ==
    hOp = "record" =>
        /\ hOut.writes <= 1
        /\ storage = hPrev \/ (storage.kind = "json" /\ BatchApplied)

\* a batch of two regions met a full quota: nothing of it was stored
C21_Witness ==
    /\ hOp = "record"
    /\ hArgs.fault = "setItem"
    /\ Cardinality(BatchRegions(hArgs.prices)) = 2
    /\ hPrev.kind = "json"
    /\ storage = hPrev
    /\ hOut.writes = 1

----------------------------------------------------------------------------
(* What the keys of the stored document show *)

String_toUpperCase(c) ==
    CASE c = "e" -> "E"
      [] c = "r" -> "R"
      [] c = "h" -> "H"
      [] c = "o" -> "O"
      [] c = "t" -> "T"
      [] c = "sigma" -> "SIGMA"
      [] c = "fsigma" -> "SIGMA"
      [] OTHER -> c

\* two titles differ in nothing but letter case and the white space around them
SameTitle(t, u) ==
    trim([n \in 1..Len(t) |-> String_toUpperCase(t[n])])
      = trim([n \in 1..Len(u) |-> String_toUpperCase(u[n])])

\* C22: after a record call that stored its batch, a query under any title
\* that differs from the recorded one only in letter case or in leading or
\* trailing white space returns, for every region of the batch, a series
\* whose last point is {today, the region's amount}; and the stored document
\* never holds two keys that differ only in letter case.
C22_SameKeyNormalization ==
    /\ RecordedOk =>
          \A u \in Titles : SameTitle(u, hArgs.title) =>
              \A rc \in BatchRegions(hArgs.prices) :
                  LET got == TryGet(storage, u, rc, "none").value
                  IN  /\ got # << >>
                      /\ got[Len(got)] = [date |-> hArgs.today,
                                          amount |-> LastAmount(hArgs.prices, rc)]
    /\ storage.kind = "json" =>
          \A k1, k2 \in DOMAIN storage.value : SameTitle(k1, k2) => k1 = k2

----------------------------------------------------------------------------
(* What a record call leaves alone *)

\* the keys and the regions of a stored item
GameKeys(item) == IF item.kind = "json" THEN DOMAIN item.value ELSE {}

RegionsOf(item, key) ==
    IF item.kind = "json" /\ Has(item.value, key) THEN DOMAIN item.value[key] ELSE {}

\* new is old with the amount of its last point replaced, or old and one more point
TailChange(old, new) ==
    LET n == Len(old)
    IN  \/ /\ n > 0
           /\ Len(new) = n
           /\ new[n].date = old[n].date
           /\ \A m \in 1..(n - 1) : new[m] = old[m]
        \/ /\ Len(new) = n + 1
           /\ \A m \in 1..n : new[m] = old[m]

\* C24: a record call touches only the series of the key of its title for
\* the regions of its batch, and each of those only at its tail (the amount
\* of the last point, or one appended point); no game and no region
\* disappears, every other series and every earlier point stay as they were.
C24_RecordFrame ==
    (hOp = "record" /\ hPrev.kind \in {"absent", "json"}) =>
        LET key == Key(hArgs.title)
        IN  /\ storage.kind \in {hPrev.kind, "json"}
            /\ GameKeys(hPrev) \subseteq GameKeys(storage)
            /\ GameKeys(storage) \subseteq GameKeys(hPrev) \cup {key}
            /\ \A k \in GameKeys(storage) :
                  /\ RegionsOf(hPrev, k) \subseteq RegionsOf(storage, k)
                  /\ \A rc \in RegionsOf(storage, k) :
                        IF k = key /\ rc \in BatchRegions(hArgs.prices)
                        THEN \/ Series(storage, k, rc) = Series(hPrev, k, rc)
                             \/ TailChange(Series(hPrev, k, rc), Series(storage, k, rc))
                        ELSE Series(storage, k, rc) = Series(hPrev, k, rc)

\* a second game was recorded next to a stored one, whose series is untouched
C24_Witness ==
    /\ hOp = "record"
    /\ hArgs.fault = "none"
    /\ Key(hArgs.title) = << "o", "sigma" >>
    /\ Series(hPrev, << "e", "r" >>, "US") # << >>
    /\ Series(storage, << "e", "r" >>, "US") = Series(hPrev, << "e", "r" >>, "US")
    /\ Series(storage, << "o", "sigma" >>, "TR") # << >>
    /\ Series(hPrev, << "o", "sigma" >>, "TR") = << >>

----------------------------------------------------------------------------
(* Termination of a search *)

\* C25: when every request is answered in the end and every backoff delay
\* elapses in the end, a call of searchGamePrices that is pending returns a
\* GameData or raises in the end, and until then it has made no more than
\* maxRetries requests to the price provider.
C25_Terminates ==
    /\ (pc = "pending") ~> (pc \in {"returned", "raised"})
    /\ [](pc = "pending" => (Attempts <= maxRetries /\ i < maxRetries))

\* a search that waited out both backoff delays and then returned
C25_Witness ==
    /\ pc = "returned"
    /\ WaitsMs = << 2000, 4000 >>

----------------------------------------------------------------------------
(* What the search form shows *)

\* the search that has ended returned at least one price
ReturnedPrices ==
    /\ gameData.set
    /\ Has(gameData.data, "prices")
    /\ gameData.data.prices # << >>

\* C23: a search that has ended wrote the history if and only if it returned
\* at least one price: then its batch was recorded (and, unless the storage
\* failed, is in the stored item); a search that raised or returned no price
\* made no record call and left the stored item as it was.
C23_HistoryOnPositiveOnly ==
    hsPc = "ended" =>
        IF ReturnedPrices
        THEN /\ hOp = "record"
             /\ hArgs.fault = "none" =>
                    /\ hOut.writes = 1
                    /\ storage.kind = "json"
                    /\ BatchApplied
        ELSE /\ hOp = "none"
             /\ storage = hPrev

\* C26: handleSearch moves idle -> loading -> success or error: loading is
\* true exactly while a search is awaited, a search that has ended shows
\* exactly one of gameData and error, and before and during a search neither
\* is set.
C26_SearchStateMachine ==
    /\ [](loading <=> hsPc = "awaiting")
    /\ [](hsPc = "ended" => (gameData.set <=> error = Null))
    /\ [](hsPc \in {"idle", "awaiting"} => (~gameData.set /\ error = Null))
    /\ [][hsPc' # hsPc =>
            \/ hsPc \in {"idle", "ended"} /\ hsPc' = "awaiting" /\ loading'
            \/ hsPc = "awaiting" /\ hsPc' = "ended" /\ ~loading']_vars

\* a search that raised: the message is shown, the spinner is off
C26_Witness ==
    /\ hsPc = "ended"
    /\ error = "generic"
    /\ ~gameData.set
    /\ ~loading

====
